---------------------------- MODULE Spec2Model ----------------------------
(***************************************************************************)
(* Model of src/bot.py: SolanaAnalyzer.analyze_token (validation, the      *)
(* concurrent fetch of four data sources, the holder fallback chain, the   *)
(* rug-pull check, the supply merge, the market cap) and                   *)
(* SolanaAnalyzer.calculate_score (the 20-point rubric).                   *)
(*                                                                         *)
(* Units.  Python floats are modelled by integers: USD amounts are counted *)
(* in cents (USD(x) is x dollars) and percentages in hundredths of a       *)
(* percent (Pct(x) is x percent), so that 999,999.99 $ and 62.35 % are     *)
(* values of the model.                                                    *)
(***************************************************************************)
EXTENDS Integers, Sequences, FiniteSets, TLC

VARIABLES
    mint,       \* the argument of analyze_token: a sequence of characters
    pc,         \* position of analyze_token (or of the scoring harness)
    task,       \* position of each of the four gathered coroutines
    results,    \* what asyncio.gather delivers for each coroutine
    failed,     \* sources whose last request ended in the except branch
    attempts,   \* holder strategies answered so far, in order, with outputs
    reqCount,   \* external requests issued so far, per request kind
    envFault,   \* exception raised inside the try block of analyze_token
    data,       \* analysis_data before scoring (input of calculate_score)
    ret,        \* value returned by analyze_token / calculate_score
    rugResp,    \* the getAccountInfo answer behind the record's rug_pull_risk
    stalled,    \* tasks whose outstanding request gets no answer
    expired     \* tasks that had a request end on the session's time limit

vars == <<mint, pc, task, results, failed, attempts, reqCount, envFault, data, ret,
          rugResp, stalled, expired>>

USD(x) == x * 100
Pct(x) == x * 100

Min(a, b) == IF a <= b THEN a ELSE b
Abs(x) == IF x < 0 THEN -x ELSE x

NoValue == [none |-> TRUE]

(***************************************************************************)
(* calculate_score: bot.py lines 414-515.  st is the pair (score,          *)
(* explanations) threaded through the eight blocks; a line of explanation  *)
(* is modelled by the category it names and the "+p/m pts" it states.      *)
(***************************************************************************)
Line(cat, pts, max) == [category |-> cat, points |-> pts, max |-> max]

Award(st, pts, line) ==
    [st EXCEPT !.score = @ + pts, !.explanations = Append(@, line)]

ScorePools_top3(st, pools) ==
    IF pools >= 5 THEN Award(st, 3, Line("Pools", 2, 2))
    ELSE IF pools >= 2 THEN Award(st, 1, Line("Pools", 1, 2))
    ELSE Award(st, 0, Line("Pools", 0, 2))

ScorePools(st, pools) ==
    IF pools >= 5 THEN Award(st, 2, Line("Pools", 2, 2))
    ELSE IF pools >= 2 THEN Award(st, 1, Line("Pools", 1, 2))
    ELSE Award(st, 0, Line("Pools", 0, 2))

ScoreVolume(st, volume) ==
    IF volume >= USD(1000000) THEN Award(st, 3, Line("Volume 24h", 3, 3))
    ELSE IF volume >= USD(100000) THEN Award(st, 2, Line("Volume 24h", 2, 3))
    ELSE IF volume >= USD(10000) THEN Award(st, 1, Line("Volume 24h", 1, 3))
    ELSE Award(st, 0, Line("Volume 24h", 0, 3))

ScoreLiquidity_strict(st, liquidity) ==
    IF liquidity > USD(1000000) THEN Award(st, 3, Line("Liquidite", 3, 3))
    ELSE IF liquidity > USD(100000) THEN Award(st, 2, Line("Liquidite", 2, 3))
    ELSE IF liquidity > USD(10000) THEN Award(st, 1, Line("Liquidite", 1, 3))
    ELSE Award(st, 0, Line("Liquidite", 0, 3))

ScoreLiquidity(st, liquidity) ==
    IF liquidity >= USD(1000000) THEN Award(st, 3, Line("Liquidite", 3, 3))
    ELSE IF liquidity >= USD(100000) THEN Award(st, 2, Line("Liquidite", 2, 3))
    ELSE IF liquidity >= USD(10000) THEN Award(st, 1, Line("Liquidite", 1, 3))
    ELSE Award(st, 0, Line("Liquidite", 0, 3))

ScoreStability(st, price_change_24h) ==
    LET price_change == Abs(price_change_24h)
    IN  IF price_change <= Pct(5) THEN Award(st, 2, Line("Stabilite", 2, 2))
        ELSE IF price_change <= Pct(15) THEN Award(st, 1, Line("Stabilite", 1, 2))
        ELSE Award(st, 0, Line("Stabilite", 0, 2))

ScoreMarketCap_wrongTop(st, market_cap) ==
    IF market_cap >= USD(20000000) THEN Award(st, 3, Line("Market Cap", 3, 3))
    ELSE IF market_cap >= USD(1000000) THEN Award(st, 2, Line("Market Cap", 2, 3))
    ELSE IF market_cap >= USD(100000) THEN Award(st, 1, Line("Market Cap", 1, 3))
    ELSE Award(st, 0, Line("Market Cap", 0, 3))

ScoreMarketCap(st, market_cap) ==
    IF market_cap >= USD(10000000) THEN Award(st, 3, Line("Market Cap", 3, 3))
    ELSE IF market_cap >= USD(1000000) THEN Award(st, 2, Line("Market Cap", 2, 3))
    ELSE IF market_cap >= USD(100000) THEN Award(st, 1, Line("Market Cap", 1, 3))
    ELSE Award(st, 0, Line("Market Cap", 0, 3))

ScoreHolders(st, holders) ==
    IF holders >= 10000 THEN Award(st, 3, Line("Holders", 3, 3))
    ELSE IF holders >= 1000 THEN Award(st, 2, Line("Holders", 2, 3))
    ELSE IF holders >= 100 THEN Award(st, 1, Line("Holders", 1, 3))
    ELSE Award(st, 0, Line("Holders", 0, 3))

ScoreDistribution_silentElse(st, top_10_share) ==
    IF top_10_share <= Pct(20) THEN Award(st, 2, Line("Distribution", 2, 2))
    ELSE IF top_10_share <= Pct(50) THEN Award(st, 1, Line("Distribution", 1, 2))
    ELSE st

ScoreDistribution(st, top_10_share) ==
    IF top_10_share <= Pct(20) THEN Award(st, 2, Line("Distribution", 2, 2))
    ELSE IF top_10_share <= Pct(50) THEN Award(st, 1, Line("Distribution", 1, 2))
    ELSE Award(st, 0, Line("Distribution", 0, 2))

ScoreSecurity(st, rug_pull_risk) ==
    IF ~rug_pull_risk THEN Award(st, 2, Line("Securite", 2, 2))
    ELSE Award(st, 0, Line("Securite", 0, 2))

\* The (score, explanations) pair after the first n blocks of calculate_score.
ScoreAfter(d, n) ==
    LET s0 == [score |-> 0, explanations |-> <<>>]
        s1 == ScorePools(s0, d.pools)
        s2 == ScoreVolume(s1, d.volume_24h)
        s3 == ScoreLiquidity(s2, d.liquidity)
        s4 == ScoreStability(s3, d.price_change_24h)
        s5 == ScoreMarketCap(s4, d.market_cap)
        s6 == ScoreHolders(s5, d.holders)
        s7 == ScoreDistribution(s6, d.top_10_share)
        s8 == ScoreSecurity(s7, d.rug_pull_risk)
    IN  CASE n = 0 -> s0 [] n = 1 -> s1 [] n = 2 -> s2 [] n = 3 -> s3
          [] n = 4 -> s4 [] n = 5 -> s5 [] n = 6 -> s6 [] n = 7 -> s7
          [] OTHER -> s8

\* return min(score, 20), explanations
calculate_score(d) == [ScoreAfter(d, 8) EXCEPT !.score = Min(@, 20)]

(***************************************************************************)
(* Inputs of the scoring harness: records that differ from one of three    *)
(* base records in at most MaxPerturb fields, each changed field taking a  *)
(* value on or next to a threshold of its category.                        *)
(***************************************************************************)
MaxPerturb == 2

BaseRecord ==
    [mint |-> <<>>, name |-> "Unknown", symbol |-> "Unknown", created_at |-> "None",
     pools |-> 0, liquidity |-> 0, volume_24h |-> 0, price_usd |-> 0,
     price_change_24h |-> 0, market_cap |-> 0, supply |-> 0, decimals |-> 0,
     holders |-> 0, top_10_share |-> 0, rug_pull_risk |-> FALSE]

TopRecord ==
    [BaseRecord EXCEPT !.pools = 6, !.volume_24h = USD(2000000),
                       !.liquidity = USD(1500000), !.price_change_24h = Pct(3),
                       !.market_cap = USD(15000000), !.holders = 12000,
                       !.top_10_share = Pct(18), !.rug_pull_risk = FALSE]

BottomRecord ==
    [BaseRecord EXCEPT !.pools = 0, !.volume_24h = 0, !.liquidity = 0,
                       !.price_change_24h = Pct(40), !.market_cap = 0,
                       !.holders = 0, !.top_10_share = Pct(100),
                       !.rug_pull_risk = TRUE]

UsdSteps(a, b, c) == {0, a - 1, a, b - 1, b, c - 1, c, c + 1}

TestValues(f) ==
    CASE f = "pools" -> {0, 1, 2, 4, 5, 6}
      [] f = "volume_24h" -> UsdSteps(USD(10000), USD(100000), USD(1000000))
      [] f = "liquidity" -> UsdSteps(USD(10000), USD(100000), USD(1000000))
      [] f = "price_change_24h" ->
            {0, Pct(5), Pct(5) + 1, Pct(15), Pct(15) + 1,
             -Pct(5), -Pct(5) - 1, -Pct(15), -Pct(15) - 1, -Pct(40)}
      [] f = "market_cap" -> UsdSteps(USD(100000), USD(1000000), USD(10000000))
      [] f = "holders" -> {0, 99, 100, 999, 1000, 9999, 10000, 10001}
      [] f = "top_10_share" -> {0, Pct(20), Pct(20) + 1, Pct(50), Pct(50) + 1, Pct(100)}
      [] f = "rug_pull_risk" -> {FALSE, TRUE}

ScoredFields ==
    {"pools", "volume_24h", "liquidity", "price_change_24h", "market_cap",
     "holders", "top_10_share", "rug_pull_risk"}

FieldValues == UNION { { <<f, v>> : v \in TestValues(f) } : f \in ScoredFields }

RECURSIVE Perturbed(_, _)
Perturbed(S, k) ==
    IF k = 0 THEN S
    ELSE Perturbed(S \cup { [r EXCEPT ![fv[1]] = fv[2]] : r \in S, fv \in FieldValues },
                   k - 1)

ScoreInputs == Perturbed({BaseRecord, TopRecord, BottomRecord}, MaxPerturb)

(***************************************************************************)
(* is_valid_mint: bot.py lines 44-52.  A mint is a sequence of one-letter  *)
(* strings; base58.b58decode raises on a letter outside the alphabet.      *)
(***************************************************************************)
MinMintLen == 32
MaxMintLen == 44

Base58Alphabet ==
    {"1", "2", "3", "4", "5", "6", "7", "8", "9",
     "A", "B", "C", "D", "E", "F", "G", "H", "J", "K", "L", "M", "N", "P", "Q",
     "R", "S", "T", "U", "V", "W", "X", "Y", "Z",
     "a", "b", "c", "d", "e", "f", "g", "h", "i", "j", "k", "m", "n", "o", "p",
     "q", "r", "s", "t", "u", "v", "w", "x", "y", "z"}

b58decode_ok(m) == \A i \in 1..Len(m) : m[i] \in Base58Alphabet

is_valid_mint_lengthOnly(m) ==
    IF Len(m) = 0 \/ Len(m) < MinMintLen \/ Len(m) > MaxMintLen THEN FALSE
    ELSE TRUE

is_valid_mint(m) ==
    IF Len(m) = 0 \/ Len(m) < MinMintLen \/ Len(m) > MaxMintLen THEN FALSE
    ELSE b58decode_ok(m)

\* A mint of n letters, all "A" but for letter `bad` (0: none), which is c.
MintOf(n, bad, c) == [i \in 1..n |-> IF i = bad THEN c ELSE "A"]

MintLengths == {0, 1, MinMintLen - 1, MinMintLen, MaxMintLen, MaxMintLen + 1}

Mints ==
    UNION { { MintOf(n, 0, "A") } \cup
            { MintOf(n, b, c) : b \in {1, n} \cap (1..n), c \in {"0", "l"} }
          : n \in MintLengths }

(***************************************************************************)
(* Responses of the external services.  exc: the request or the decoding   *)
(* of its payload raised inside the source's try block; otherwise status   *)
(* and body are what the service answered.                                 *)
(***************************************************************************)
Raised == [exc |-> TRUE, status |-> 0, body |-> <<>>]
Http(status, body) == [exc |-> FALSE, status |-> status, body |-> body]

\* What asyncio.gather(return_exceptions=True) delivers for a coroutine that raised.
ExceptionObject == [exception |-> "ClientError"]
IsException(r) == "exception" \in DOMAIN r

RECURSIVE SeqSum(_)
SeqSum(s) == IF s = <<>> THEN 0 ELSE Head(s) + SeqSum(Tail(s))

RECURSIVE Rep(_, _)
Rep(c, n) ==
    IF n = 0 THEN ""
    ELSE IF n % 2 = 0 THEN LET half == Rep(c, n \div 2) IN half \o half
    ELSE c \o Rep(c, n - 1)

(***************************************************************************)
(* get_dexscreener_data: bot.py lines 54-93.                               *)
(***************************************************************************)
MaxPairs == 2

DexDefault ==
    [pools |-> 0, price_usd |-> 0, price_change_24h |-> 0, volume_24h |-> 0,
     liquidity |-> 0]

\* for pair in pairs: if pair.get("priceUsd"): ...; break
RECURSIVE FirstPriced(_)
FirstPriced(pairs) ==
    IF pairs = <<>> THEN [price_usd |-> 0, price_change_24h |-> 0]
    ELSE IF Head(pairs).has_price
         THEN [price_usd |-> Head(pairs).priceUsd,
               price_change_24h |-> Head(pairs).priceChange]
         ELSE FirstPriced(Tail(pairs))

DexAggregate(pairs) ==
    [pools |-> Len(pairs),
     price_usd |-> FirstPriced(pairs).price_usd,
     price_change_24h |-> FirstPriced(pairs).price_change_24h,
     volume_24h |-> SeqSum([i \in 1..Len(pairs) |-> pairs[i].volume]),
     liquidity |-> SeqSum([i \in 1..Len(pairs) |-> pairs[i].liquidity])]

get_dexscreener_data_noCatch(resp) ==
    IF resp.exc THEN ExceptionObject
    ELSE IF resp.status = 200 /\ resp.body # <<>> THEN DexAggregate(resp.body)
    ELSE DexDefault

get_dexscreener_data(resp) ==
    IF resp.exc THEN DexDefault
    ELSE IF resp.status = 200 /\ resp.body # <<>> THEN DexAggregate(resp.body)
    ELSE DexDefault

PairSamples ==
    {[volume |-> USD(60000), liquidity |-> USD(6000), has_price |-> TRUE,
      priceUsd |-> 250, priceChange |-> -Pct(7)],
     [volume |-> USD(500), liquidity |-> USD(4000), has_price |-> FALSE,
      priceUsd |-> 0, priceChange |-> Pct(40)]}

RECURSIVE SeqsUpTo(_, _)
SeqsUpTo(S, n) ==
    IF n = 0 THEN {<<>>}
    ELSE SeqsUpTo(S, n - 1) \cup
         { Append(s, x) : s \in { t \in SeqsUpTo(S, n - 1) : Len(t) = n - 1 }, x \in S }

DexResponses ==
    {Raised, Http(500, <<>>)} \cup { Http(200, ps) : ps \in SeqsUpTo(PairSamples, MaxPairs) }

(***************************************************************************)
(* get_token_metadata: bot.py lines 95-146.  The body holds token_info and *)
(* content.metadata.name/symbol as the service sent them; named is FALSE   *)
(* when content.metadata is missing.                                       *)
(***************************************************************************)
MetadataDefault ==
    [name |-> "Unknown", symbol |-> "Unknown", supply |-> 0, decimals |-> 0,
     created_at |-> "None"]

get_token_metadata(resp) ==
    IF resp.exc THEN MetadataDefault
    ELSE IF resp.status = 200
         THEN [name |-> IF resp.body.named THEN resp.body.name ELSE "Unknown",
               symbol |-> IF resp.body.named THEN resp.body.symbol ELSE "Unknown",
               supply |-> resp.body.supply,
               decimals |-> resp.body.decimals,
               created_at |-> "None"]
         ELSE MetadataDefault

MetadataBodies ==
    {[named |-> FALSE, name |-> "", symbol |-> "", supply |-> 0, decimals |-> 0],
     [named |-> TRUE, name |-> "Token", symbol |-> "TOK", supply |-> 4000000, decimals |-> 0],
     [named |-> TRUE, name |-> "Token", symbol |-> "TOK", supply |-> 500000, decimals |-> 1]}

MetadataResponses ==
    {Raised, Http(500, <<>>)} \cup { Http(200, b) : b \in MetadataBodies }

(***************************************************************************)
(* get_token_supply_info: bot.py lines 148-171.                            *)
(***************************************************************************)
SupplyDefault == [supply |-> 0, decimals |-> 0]

get_token_supply_info(resp) ==
    IF resp.exc THEN SupplyDefault
    ELSE IF resp.status = 200
         THEN [supply |-> resp.body.amount, decimals |-> resp.body.decimals]
         ELSE SupplyDefault

SupplyBodies ==
    {[amount |-> 0, decimals |-> 0], [amount |-> 0, decimals |-> 2],
     [amount |-> 800000, decimals |-> 0], [amount |-> 4000000, decimals |-> 2]}

SupplyResponses ==
    {Raised, Http(500, <<>>)} \cup { Http(200, b) : b \in SupplyBodies }

(***************************************************************************)
(* The holder strategies: get_holders_info_helius (A, lines 173-228),      *)
(* get_holders_info_solscan_alternative (B, lines 299-349) and             *)
(* get_holders_info_fallback (C, lines 230-297).  A body is the list of    *)
(* the accounts' amounts, in the order the service sent them.              *)
(***************************************************************************)
TopN == 10
MaxAccounts == 11

\* A fallback value that assumes the worst distribution.
HoldersZero_fullShare == [holders |-> 0, top_10_share |-> Pct(100)]

HoldersZero == [holders |-> 0, top_10_share |-> 0]

\* [a for a in amounts if a > 0], order kept
RECURSIVE Positive(_)
Positive(s) ==
    IF s = <<>> THEN <<>>
    ELSE IF Head(s) > 0 THEN <<Head(s)>> \o Positive(Tail(s))
    ELSE Positive(Tail(s))

\* sort(key=amount, reverse=True): a stable insertion sort, largest first
RECURSIVE InsertDesc(_, _)
InsertDesc(x, s) ==
    IF s = <<>> THEN <<x>>
    ELSE IF x >= Head(s) THEN <<x>> \o s
    ELSE <<Head(s)>> \o InsertDesc(x, Tail(s))

RECURSIVE SortDesc(_)
SortDesc(s) == IF s = <<>> THEN <<>> ELSE InsertDesc(Head(s), SortDesc(Tail(s)))

Take(s, n) == SubSeq(s, 1, Min(n, Len(s)))

\* round(100 * num / den, 2) in hundredths of a percent, ties to even
Round2Pct(num, den) ==
    LET x == num * 10000
        q == x \div den
        r == x % den
    IN  IF 2 * r < den THEN q
        ELSE IF 2 * r > den THEN q + 1
        ELSE IF q % 2 = 0 THEN q ELSE q + 1

\* The share of the first ten amounts in the service's order.
Top10Share_unsorted(amounts) ==
    LET top_10 == Take(amounts, TopN)
        total_supply == SeqSum(amounts)
        top_10_amount == SeqSum(top_10)
    IN  IF total_supply > 0 THEN Round2Pct(top_10_amount, total_supply) ELSE 0

Top10Share(amounts) ==
    LET top_10 == Take(SortDesc(amounts), TopN)
        total_supply == SeqSum(amounts)
        top_10_amount == SeqSum(top_10)
    IN  IF total_supply > 0 THEN Round2Pct(top_10_amount, total_supply) ELSE 0

\* Strategy A up to line 223: its own result, or NoValue when control
\* reaches line 228 (the call of get_holders_info_fallback).
helius_own(resp) ==
    IF resp.exc THEN NoValue
    ELSE IF resp.status = 200 /\ resp.body # <<>> /\ Positive(resp.body) # <<>>
         THEN [holders |-> Len(Positive(resp.body)),
               top_10_share |-> Top10Share(Positive(resp.body))]
         ELSE NoValue

get_holders_info_fallback(resp) ==
    IF resp.exc THEN HoldersZero
    ELSE IF resp.status = 200 /\ Positive(resp.body) # <<>>
         THEN [holders |-> Len(Positive(resp.body)),
               top_10_share |-> Top10Share(Positive(resp.body))]
         ELSE HoldersZero

\* The body of strategy B is [shape, list]: {"data": list}, a bare list, or
\* anything else.
get_holders_info_solscan_alternative(resp) ==
    IF resp.exc THEN HoldersZero
    ELSE IF resp.status = 200
         THEN IF resp.body.shape \notin {"wrapped", "bare"} THEN HoldersZero
              ELSE IF resp.body.list # <<>>
                   THEN [holders |-> Len(resp.body.list),
                         top_10_share |-> Top10Share(resp.body.list)]
                   ELSE HoldersZero
         ELSE HoldersZero

AccountLists ==
    {<<>>, <<0>>, <<7>>, <<5, 0, 3>>, [i \in 1..MaxAccounts |-> i],
     [i \in 1..MaxAccounts |-> 1]}

AccountResponses ==
    {Raised, Http(500, <<>>)} \cup { Http(200, l) : l \in AccountLists }

SolscanResponses ==
    {Raised, Http(500, [shape |-> "other", list |-> <<>>]),
     Http(200, [shape |-> "other", list |-> <<>>])}
    \cup { Http(200, [shape |-> sh, list |-> l]) :
             sh \in {"wrapped", "bare"}, l \in AccountLists }

(***************************************************************************)
(* check_rug_pull_risk: bot.py lines 366-404.  The body tells whether the  *)
(* account value carries data and whether each authority is non-null.      *)
(***************************************************************************)
\* An assessor that reports a risk when it could not read the account.
check_rug_pull_risk_failClosed(resp) ==
    IF resp.exc THEN TRUE
    ELSE IF resp.status = 200 /\ resp.body.has_data
         THEN resp.body.freezeAuthority \/ resp.body.mintAuthority
         ELSE FALSE

check_rug_pull_risk(resp) ==
    IF resp.exc THEN FALSE
    ELSE IF resp.status = 200 /\ resp.body.has_data
         THEN resp.body.freezeAuthority \/ resp.body.mintAuthority
         ELSE FALSE

RugBodies ==
    { [has_data |-> h, freezeAuthority |-> f, mintAuthority |-> m] :
        h \in BOOLEAN, f \in BOOLEAN, m \in BOOLEAN }

RugResponses ==
    {Raised, Http(500, [has_data |-> FALSE, freezeAuthority |-> FALSE,
                        mintAuthority |-> FALSE])}
    \cup { Http(200, b) : b \in RugBodies }

(***************************************************************************)
(* calculate_market_cap (lines 406-412) and the merge of analyze_token     *)
(* (lines 546-574).  x or y is y when x is 0.                              *)
(***************************************************************************)
RECURSIVE Pow10(_)
Pow10(n) == IF n = 0 THEN 1 ELSE 10 * Pow10(n - 1)

\* A market cap computed from the raw supply.
calculate_market_cap_rawSupply(price_usd, supply, decimals) ==
    IF supply = 0 \/ decimals < 0 THEN 0
    ELSE price_usd * supply

calculate_market_cap(price_usd, supply, decimals) ==
    IF supply = 0 \/ decimals < 0 THEN 0
    ELSE (price_usd * supply) \div Pow10(decimals)

Or(x, y) == IF x # 0 THEN x ELSE y

MergeSupply(supply_info, metadata) == Or(supply_info.supply, metadata.supply)

MergeDecimals(supply_info, metadata) == Or(supply_info.decimals, metadata.decimals)

analysis_data(m, dex_data, metadata, supply_info, holders_info, rug_pull_risk) ==
    LET supply == MergeSupply(supply_info, metadata)
        decimals == MergeDecimals(supply_info, metadata)
        market_cap == calculate_market_cap(dex_data.price_usd, supply, decimals)
    IN  [mint |-> m,
         name |-> metadata.name,
         symbol |-> metadata.symbol,
         created_at |-> metadata.created_at,
         pools |-> dex_data.pools,
         liquidity |-> dex_data.liquidity,
         volume_24h |-> dex_data.volume_24h,
         price_usd |-> dex_data.price_usd,
         price_change_24h |-> dex_data.price_change_24h,
         market_cap |-> market_cap,
         supply |-> supply,
         decimals |-> decimals,
         holders |-> holders_info.holders,
         top_10_share |-> holders_info.top_10_share,
         rug_pull_risk |-> rug_pull_risk]

\* A record returned with its explanation lines but without its score.
Scored_noScore(d) == [explanations |-> calculate_score(d).explanations] @@ d

\* analysis_data["score"] = score; analysis_data["explanations"] = explanations
Scored(d) == calculate_score(d) @@ d

(***************************************************************************)
(* The two error values of analyze_token (lines 531 and 588), and the      *)
(* exceptions its handler (line 586) may catch: the AttributeError of      *)
(* calling .get on an exception delivered by gather, and any exception     *)
(* raised by the statements of the try block, whatever its text.           *)
(***************************************************************************)
DiagCap == 200

InvalidMintError == [error |-> "Mint address invalide"]

AnalysisFailedPrefix == "Erreur lors de l'analyse: "

AnalysisFailed(e) == [error |-> AnalysisFailedPrefix \o e.text]

AttributeError ==
    [exception |-> "AttributeError",
     text |-> "'ClientError' object has no attribute 'get'"]

EnvFaults ==
    {[exception |-> "OverflowError",
      text |-> "integer division result too large for a float"]}
    \cup { [exception |-> "Exception", text |-> Rep("x", n)] :
             n \in {0, DiagCap, DiagCap + 1} }

IsError(r) == "error" \in DOMAIN r

Sources == {"dex", "metadata", "supply", "holders"}

RequestKinds ==
    {"dexscreener GET", "getAsset", "getTokenSupply", "getTokenAccounts",
     "holders GET", "getProgramAccounts", "getAccountInfo"}

Idle ==
    /\ task = [s \in Sources |-> "none"]
    /\ results = [s \in Sources |-> NoValue]
    /\ failed = {}
    /\ attempts = <<>>
    /\ reqCount = [k \in RequestKinds |-> 0]
    /\ envFault = NoValue
    /\ rugResp = NoValue
    /\ stalled = {}
    /\ expired = {}

\* The scoring harness: calculate_score applied to one input record.
ScoreInit ==
    /\ mint = <<>>
    /\ pc = "score_ready"
    /\ Idle
    /\ data \in ScoreInputs
    /\ ret = NoValue

ScoreApply ==
    /\ pc = "score_ready"
    /\ pc' = "score_done"
    /\ ret' = calculate_score(data)
    /\ UNCHANGED <<mint, task, results, failed, attempts, reqCount, envFault, data>>
    /\ UNCHANGED <<rugResp, stalled, expired>>

ScoreNext == ScoreApply

ScoreSpec == ScoreInit /\ [][ScoreNext]_vars

(***************************************************************************)
(* analyze_token: bot.py lines 528-588.  One action per stretch of code    *)
(* between two awaits.                                                     *)
(***************************************************************************)
Init ==
    /\ mint \in Mints
    /\ pc = "call"
    /\ Idle
    /\ data = NoValue
    /\ ret = NoValue

Issue(kind) == reqCount' = [reqCount EXCEPT ![kind] = @ + 1]

Tasks == Sources \cup {"rug"}

\* A session whose requests have no time limit at all.
SessionTimeout_none == FALSE

\* line 37: ClientSession() is built without a timeout argument, so every
\* request of the session runs under the transport's default time limit.
SessionTimeout == TRUE

\* The task `who` is suspended in a request of self.session.
Awaiting(who) ==
    IF who = "rug" THEN pc = "rug"
    ELSE task[who] \notin {"none", "created", "done"}

\* What the awaited request can end in: one of the service's answers, or,
\* when the service went silent, the time limit raising inside the try.
Outcomes(who, responses) ==
    IF who \in stalled
    THEN IF SessionTimeout THEN {Raised} ELSE {}
    ELSE responses

\* The await of `who` is over.
Arrive(who) ==
    /\ stalled' = stalled \ {who}
    /\ expired' = IF who \in stalled THEN expired \cup {who} ELSE expired

\* The service stops answering an outstanding request.
Stall ==
    /\ \E who \in Tasks :
          /\ Awaiting(who)
          /\ who \notin stalled
          /\ stalled' = stalled \cup {who}
    /\ UNCHANGED <<mint, pc, task, results, failed, attempts, reqCount, envFault,
                   data, ret, rugResp, expired>>

\* A gather that fails fast: the first exception ends the siblings too.
Settle_failFast(s, value, raisedNow) ==
    /\ task' = IF raisedNow THEN [t \in Sources |-> "done"]
               ELSE [task EXCEPT ![s] = "done"]
    /\ results' = IF raisedNow
                  THEN [t \in Sources |->
                          IF t = s THEN value
                          ELSE IF task[t] = "done" THEN results[t]
                          ELSE ExceptionObject]
                  ELSE [results EXCEPT ![s] = value]
    /\ failed' = IF raisedNow THEN failed \cup {s} ELSE failed \ {s}

Settle(s, value, raisedNow) ==
    /\ task' = [task EXCEPT ![s] = "done"]
    /\ results' = [results EXCEPT ![s] = value]
    /\ failed' = IF raisedNow THEN failed \cup {s} ELSE failed \ {s}

\* lines 530-531
RejectMint ==
    /\ pc = "call"
    /\ ~is_valid_mint(mint)
    /\ pc' = "returned"
    /\ ret' = InvalidMintError
    /\ UNCHANGED <<mint, task, results, failed, attempts, reqCount, envFault, data>>
    /\ UNCHANGED <<rugResp, stalled, expired>>

\* lines 535-541: gather wraps the four coroutines in tasks
StartGather ==
    /\ pc = "call"
    /\ is_valid_mint(mint)
    /\ pc' = "gather"
    /\ task' = [s \in Sources |-> "created"]
    /\ UNCHANGED <<mint, results, failed, attempts, reqCount, envFault, data, ret>>
    /\ UNCHANGED <<rugResp, stalled, expired>>

DexStart ==
    /\ task["dex"] = "created"
    /\ task' = [task EXCEPT !["dex"] = "awaiting"]
    /\ Issue("dexscreener GET")
    /\ UNCHANGED <<mint, pc, results, failed, attempts, envFault, data, ret>>
    /\ UNCHANGED <<rugResp, stalled, expired>>

DexResponse ==
    /\ task["dex"] = "awaiting"
    /\ \E resp \in Outcomes("dex", DexResponses) :
          Settle("dex", get_dexscreener_data(resp), resp.exc)
    /\ Arrive("dex")
    /\ UNCHANGED <<mint, pc, attempts, reqCount, envFault, data, ret, rugResp>>

MetadataStart ==
    /\ task["metadata"] = "created"
    /\ task' = [task EXCEPT !["metadata"] = "awaiting"]
    /\ Issue("getAsset")
    /\ UNCHANGED <<mint, pc, results, failed, attempts, envFault, data, ret>>
    /\ UNCHANGED <<rugResp, stalled, expired>>

MetadataResponse ==
    /\ task["metadata"] = "awaiting"
    /\ \E resp \in Outcomes("metadata", MetadataResponses) :
          Settle("metadata", get_token_metadata(resp), resp.exc)
    /\ Arrive("metadata")
    /\ UNCHANGED <<mint, pc, attempts, reqCount, envFault, data, ret, rugResp>>

SupplyStart ==
    /\ task["supply"] = "created"
    /\ task' = [task EXCEPT !["supply"] = "awaiting"]
    /\ Issue("getTokenSupply")
    /\ UNCHANGED <<mint, pc, results, failed, attempts, envFault, data, ret>>
    /\ UNCHANGED <<rugResp, stalled, expired>>

SupplyResponse ==
    /\ task["supply"] = "awaiting"
    /\ \E resp \in Outcomes("supply", SupplyResponses) :
          Settle("supply", get_token_supply_info(resp), resp.exc)
    /\ Arrive("supply")
    /\ UNCHANGED <<mint, pc, attempts, reqCount, envFault, data, ret, rugResp>>

(***************************************************************************)
(* get_holders_info: lines 351-364, with the strategies it awaits.         *)
(***************************************************************************)
\* holders_data of strategies A and C (lines 198-205 and 264-275): the
\* amounts kept from the answer, in the service's order; empty when the
\* request failed.
AccountHoldersData(resp) ==
    IF resp.exc \/ resp.status # 200 THEN <<>> ELSE Positive(resp.body)

\* holders_data of strategy B (lines 314-322): the list as it came
SolscanHoldersData(resp) ==
    IF resp.exc \/ resp.status # 200 THEN <<>>
    ELSE IF resp.body.shape \notin {"wrapped", "bare"} THEN <<>>
    ELSE resp.body.list

Attempt(strategy, out, holders_data) ==
    [strategy |-> strategy, holders |-> out.holders,
     top_10_share |-> out.top_10_share, holders_data |-> holders_data]

\* The holders task either returns `out` or awaits the next request.
HoldersContinue(out, raisedNow, next, kind) ==
    IF out.holders = 0 /\ next # "done"
    THEN /\ task' = [task EXCEPT !["holders"] = next]
         /\ Issue(kind)
         /\ failed' = IF raisedNow THEN failed \cup {"holders"} ELSE failed \ {"holders"}
         /\ UNCHANGED results
    ELSE /\ Settle("holders", out, raisedNow)
         /\ UNCHANGED reqCount

\* line 354 up to the request of line 190
HoldersStart ==
    /\ task["holders"] = "created"
    /\ task' = [task EXCEPT !["holders"] = "await_helius"]
    /\ Issue("getTokenAccounts")
    /\ UNCHANGED <<mint, pc, results, failed, attempts, envFault, data, ret>>
    /\ UNCHANGED <<rugResp, stalled, expired>>

\* lines 191-228: strategy A answers; with no result of its own it calls
\* get_holders_info_fallback before returning
HeliusResponse ==
    /\ task["holders"] = "await_helius"
    /\ \E resp \in Outcomes("holders", AccountResponses) :
          LET own == helius_own(resp)
          IN  IF own = NoValue
              THEN /\ attempts' = Append(attempts,
                                         Attempt("A", HoldersZero, AccountHoldersData(resp)))
                   /\ task' = [task EXCEPT !["holders"] = "await_helius_fallback"]
                   /\ Issue("getProgramAccounts")
                   /\ failed' = IF resp.exc THEN failed \cup {"holders"}
                                ELSE failed \ {"holders"}
                   /\ UNCHANGED results
              ELSE /\ attempts' = Append(attempts,
                                         Attempt("A", own, AccountHoldersData(resp)))
                   /\ Settle("holders", own, FALSE)
                   /\ UNCHANGED reqCount
    /\ Arrive("holders")
    /\ UNCHANGED <<mint, pc, envFault, data, ret, rugResp>>

\* lines 259-297 called from line 228, then lines 357-358
HeliusFallbackResponse ==
    /\ task["holders"] = "await_helius_fallback"
    /\ \E resp \in Outcomes("holders", AccountResponses) :
          LET out == get_holders_info_fallback(resp)
          IN  /\ attempts' = Append(attempts, Attempt("C", out, AccountHoldersData(resp)))
              /\ HoldersContinue(out, resp.exc, "await_solscan", "holders GET")
    /\ Arrive("holders")
    /\ UNCHANGED <<mint, pc, envFault, data, ret, rugResp>>

\* lines 311-349, then lines 361-362
SolscanResponse ==
    /\ task["holders"] = "await_solscan"
    /\ \E resp \in Outcomes("holders", SolscanResponses) :
          LET out == get_holders_info_solscan_alternative(resp)
          IN  /\ attempts' = Append(attempts, Attempt("B", out, SolscanHoldersData(resp)))
              /\ HoldersContinue(out, resp.exc, "await_fallback", "getProgramAccounts")
    /\ Arrive("holders")
    /\ UNCHANGED <<mint, pc, envFault, data, ret, rugResp>>

\* lines 259-297 called from line 362, then line 364
FallbackResponse ==
    /\ task["holders"] = "await_fallback"
    /\ \E resp \in Outcomes("holders", AccountResponses) :
          LET out == get_holders_info_fallback(resp)
          IN  /\ attempts' = Append(attempts, Attempt("C", out, AccountHoldersData(resp)))
              /\ HoldersContinue(out, resp.exc, "done", "")
    /\ Arrive("holders")
    /\ UNCHANGED <<mint, pc, envFault, data, ret, rugResp>>

\* line 541 completes once the four tasks are done; line 544 up to the
\* request of line 381
GatherDone ==
    /\ pc = "gather"
    /\ \A s \in Sources : task[s] = "done"
    /\ pc' = "rug"
    /\ Issue("getAccountInfo")
    /\ UNCHANGED <<mint, task, results, failed, attempts, envFault, data, ret>>
    /\ UNCHANGED <<rugResp, stalled, expired>>

\* lines 382-404, then lines 546-584, or the handler of lines 586-588
Complete ==
    /\ pc = "rug"
    /\ pc' = "returned"
    /\ \E resp \in Outcomes("rug", RugResponses), fault \in {NoValue} \cup EnvFaults :
          LET rug_pull_risk == check_rug_pull_risk(resp)
              d == analysis_data(mint, results["dex"], results["metadata"],
                                 results["supply"], results["holders"], rug_pull_risk)
          IN  /\ failed' = IF resp.exc THEN failed \cup {"rug"} ELSE failed
              /\ envFault' = fault
              /\ IF \E s \in Sources : IsException(results[s])
                 THEN /\ rugResp' = rugResp /\ data' = data
                      /\ ret' = AnalysisFailed(AttributeError)
                 ELSE IF fault # NoValue
                 THEN /\ rugResp' = rugResp /\ data' = data
                      /\ ret' = AnalysisFailed(fault)
                 ELSE /\ rugResp' = resp /\ data' = d
                      /\ ret' = Scored(d)
    /\ Arrive("rug")
    /\ UNCHANGED <<mint, task, results, attempts, reqCount>>

Next ==
    \/ RejectMint
    \/ StartGather
    \/ DexStart
    \/ DexResponse
    \/ MetadataStart
    \/ MetadataResponse
    \/ SupplyStart
    \/ SupplyResponse
    \/ HoldersStart
    \/ HeliusResponse
    \/ HeliusFallbackResponse
    \/ SolscanResponse
    \/ FallbackResponse
    \/ GatherDone
    \/ Complete
    \/ Stall

Spec == Init /\ [][Next]_vars

\* The event loop resumes every coroutine whose await is over, and every
\* outstanding request ends: in an answer, in a transport error, or, once
\* the service went silent, in the session's time limit.
FairInit ==
    /\ Init
    /\ mint \in {MintOf(MaxMintLen, 0, "A"), MintOf(MaxMintLen + 1, 0, "A")}

FairSpec == FairInit /\ [][Next]_vars /\ WF_vars(Next)

(***************************************************************************)
(* Properties.                                                             *)
(***************************************************************************)
RecordFields ==
    {"mint", "name", "symbol", "created_at", "pools", "liquidity", "volume_24h",
     "price_usd", "price_change_24h", "market_cap", "supply", "decimals",
     "holders", "top_10_share", "rug_pull_risk", "score", "explanations"}

NoRequestIssued == \A k \in RequestKinds : reqCount[k] = 0

\* The validity condition as the claim words it.
FailsValidityCheck ==
    \/ Len(mint) < 32
    \/ Len(mint) > 44
    \/ \E i \in 1..Len(mint) : mint[i] \notin Base58Alphabet

\* C1: for an identifier whose length is outside [32,44] or that does not
\* decode as base-58, analyze_token returns the invalid-mint error and no
\* external request of any kind is issued at any point of the call.
C1_InvalidMintNoRequest ==
    FailsValidityCheck =>
        /\ NoRequestIssued
        /\ pc \in {"call", "returned"}
        /\ pc = "returned" => ret = InvalidMintError

C1_Witness ==
    /\ pc = "returned"
    /\ Len(mint) = 44
    /\ ~b58decode_ok(mint)
    /\ ret = InvalidMintError
    /\ NoRequestIssued

Attempted(strategy) == \E i \in 1..Len(attempts) : attempts[i].strategy = strategy

\* The output of the last answered attempt of a strategy.
LastOut(strategy) ==
    LET idx == { i \in 1..Len(attempts) : attempts[i].strategy = strategy }
        last == CHOOSE i \in idx : \A k \in idx : k <= i
    IN  [holders |-> attempts[last].holders, top_10_share |-> attempts[last].top_10_share]

\* C2: once get_holders_info has returned, its result is the output of the
\* first strategy in the order A, B, C whose holder count is positive, the
\* all-zero value when none is, and B was attempted whenever A yielded 0.
C2_FirstNonZeroInOrderABC ==
    task["holders"] = "done" /\ ~IsException(results["holders"]) =>
        IF LastOut("A").holders > 0 THEN results["holders"] = LastOut("A")
        ELSE /\ Attempted("B")
             /\ IF LastOut("B").holders > 0 THEN results["holders"] = LastOut("B")
                ELSE /\ Attempted("C")
                     /\ results["holders"] = LastOut("C")

SourceDefaultsInRecord(s) ==
    CASE s = "dex" ->
            /\ ret.pools = 0 /\ ret.price_usd = 0 /\ ret.price_change_24h = 0
            /\ ret.volume_24h = 0 /\ ret.liquidity = 0 /\ ret.market_cap = 0
      [] s = "metadata" ->
            /\ ret.name = "Unknown" /\ ret.symbol = "Unknown"
            /\ ret.created_at = "None"
            /\ ret.supply = results["supply"].supply
            /\ ret.decimals = results["supply"].decimals
      [] s = "supply" ->
            /\ ret.supply = results["metadata"].supply
            /\ ret.decimals = results["metadata"].decimals
      [] s = "holders" -> ret.holders = 0 /\ ret.top_10_share = 0

PointsOfLines(lines) == SeqSum([i \in 1..Len(lines) |-> lines[i].points])

\* C3: for a valid identifier, when a data source failed with an exception
\* (and nothing else raised in analyze_token), the value returned is a
\* complete record, not an error; the fields of the failed source hold its
\* default values and the score is the one computed from the record.
C3_PartialFailureStillRecord ==
    pc = "returned" /\ ~FailsValidityCheck /\ envFault = NoValue
      /\ failed \cap Sources # {} =>
        /\ ~IsError(ret)
        /\ DOMAIN ret = RecordFields
        /\ \A s \in failed \cap Sources : SourceDefaultsInRecord(s)
        /\ ret.score = calculate_score(data).score
        /\ ret.score = PointsOfLines(ret.explanations)

C3_Witness ==
    /\ pc = "returned"
    /\ failed = {"dex"}
    /\ ~IsError(ret)
    /\ ret.pools = 0 /\ ret.volume_24h = 0
    /\ ret.holders > 0
    /\ ret.name = "Token"
    /\ ret.supply > 0
    /\ ret.score = 2

\* C4: in the record, supply and decimals are both the supply source's
\* when its supply is non-zero, and both the metadata source's when its
\* supply is zero.
C4_SupplySourceOverridesBoth ==
    pc = "returned" /\ ~IsError(ret) =>
        IF results["supply"].supply # 0
        THEN /\ ret.supply = results["supply"].supply
             /\ ret.decimals = results["supply"].decimals
        ELSE /\ ret.supply = results["metadata"].supply
             /\ ret.decimals = results["metadata"].decimals

CategoryMaxima == <<2, 3, 3, 2, 3, 3, 2, 2>>

\* C5: the score returned by calculate_score is an integer of 0..20, the
\* maxima stated by the eight categories are 2,3,3,2,3,3,2,2 and sum to 20,
\* and the final min(score, 20) leaves the accumulated sum as it is.
C5_ScoreInRange ==
    pc = "score_done" =>
        /\ ret.score \in 0..20
        /\ ret.score = ScoreAfter(data, 8).score
        /\ [i \in 1..Len(ret.explanations) |-> ret.explanations[i].max] = CategoryMaxima
        /\ SeqSum(CategoryMaxima) = 20
        /\ \A i \in 1..Len(ret.explanations) :
              ret.explanations[i].points \in 0..ret.explanations[i].max

C5_Witness ==
    /\ pc = "score_done"
    /\ ret.score = 20
    /\ data.holders = 10000

\* The ladders as the claim words them.
AtLeast3(v, a, b, c) == IF v >= c THEN 3 ELSE IF v >= b THEN 2 ELSE IF v >= a THEN 1 ELSE 0
AtMost2(v, a, b) == IF v <= a THEN 2 ELSE IF v <= b THEN 1 ELSE 0

ClaimedPoints(d) ==
    << IF d.pools >= 5 THEN 2 ELSE IF d.pools >= 2 THEN 1 ELSE 0,
       AtLeast3(d.volume_24h, USD(10000), USD(100000), USD(1000000)),
       AtLeast3(d.liquidity, USD(10000), USD(100000), USD(1000000)),
       AtMost2(Abs(d.price_change_24h), Pct(5), Pct(15)),
       AtLeast3(d.market_cap, USD(100000), USD(1000000), USD(10000000)),
       AtLeast3(d.holders, 100, 1000, 10000),
       AtMost2(d.top_10_share, Pct(20), Pct(50)),
       IF d.rug_pull_risk = FALSE THEN 2 ELSE 0 >>

\* C6: every category awards the points of its ladder, thresholds
\* included: a value on a threshold gets the higher band and the nearest
\* value on the other side the lower one.
C6_StepFunctions ==
    pc = "score_done" =>
        /\ Len(ret.explanations) = 8
        /\ \A i \in 1..8 :
              /\ ret.explanations[i].points = ClaimedPoints(data)[i]
              /\ ScoreAfter(data, i).score - ScoreAfter(data, i - 1).score
                    = ClaimedPoints(data)[i]
        /\ ret.score = SeqSum(ClaimedPoints(data))

C6_Witness ==
    /\ pc = "score_done"
    /\ data.liquidity = USD(10000)
    /\ data.volume_24h = USD(1000000) - 1
    /\ ret.explanations[3].points = 1
    /\ ret.explanations[2].points = 2

InTopBands(d) ==
    /\ d.pools >= 5 /\ d.volume_24h >= USD(1000000) /\ d.liquidity >= USD(1000000)
    /\ Abs(d.price_change_24h) <= Pct(5) /\ d.market_cap >= USD(10000000)
    /\ d.holders >= 10000 /\ d.top_10_share <= Pct(20) /\ ~d.rug_pull_risk

InBottomBands(d) ==
    /\ d.pools < 2 /\ d.volume_24h < USD(10000) /\ d.liquidity < USD(10000)
    /\ Abs(d.price_change_24h) > Pct(15) /\ d.market_cap < USD(100000)
    /\ d.holders < 100 /\ d.top_10_share > Pct(50) /\ d.rug_pull_risk

\* C7: a record in the top band of all eight categories (such as 6 pools,
\* 2,000,000 volume, 1,500,000 liquidity, 3 %, 15,000,000 market cap,
\* 12,000 holders, top-10 share 18, no authority) scores 20; a record in
\* the bottom band of all eight (0 pools, 0 volume and liquidity, 40 %,
\* 0 market cap, 0 holders, top-10 share 100, an authority) scores 0.
C7_TopAndBottomRecords ==
    pc = "score_done" =>
        /\ InTopBands(TopRecord) /\ InBottomBands(BottomRecord)
        /\ InTopBands(data) => ret.score = 20
        /\ InBottomBands(data) => ret.score = 0 /\ data.rug_pull_risk

C7_Witness ==
    /\ pc = "score_done"
    /\ data = BottomRecord
    /\ ret.score = 0
    /\ data.rug_pull_risk

RubricOrder ==
    <<"Pools", "Volume 24h", "Liquidite", "Stabilite", "Market Cap", "Holders",
      "Distribution", "Securite">>

\* C8: calculate_score returns exactly eight explanation lines, one per
\* category in the order pools, volume, liquidity, stability, market cap,
\* holders, distribution, security, whatever band each category hit, and
\* the points a line states are the points its category added to the score.
C8_EightLinesInOrder ==
    pc = "score_done" =>
        /\ [i \in 1..Len(ret.explanations) |-> ret.explanations[i].category] = RubricOrder
        /\ \A i \in 1..8 :
              /\ Len(ScoreAfter(data, i).explanations) = i
              /\ ret.explanations[i].points
                    = ScoreAfter(data, i).score - ScoreAfter(data, i - 1).score

C8_Witness ==
    /\ pc = "score_done"
    /\ Len(ret.explanations) = 8
    /\ ret.explanations[7].points = 0
    /\ ret.explanations[1].points = 2
    /\ ret.explanations[4].points = 1

SourceDefault(s) ==
    CASE s = "dex" -> DexDefault
      [] s = "metadata" -> MetadataDefault
      [] s = "supply" -> SupplyDefault
      [] s = "holders" -> HoldersZero

\* C10: the merge runs only once the four tasks have settled; a task that
\* failed with an exception leaves its source's default as its result and
\* never an exception, whatever the order of the steps, and the results of
\* the other tasks are the values the merge reads.
C10_TasksIsolated ==
    /\ pc \in {"rug", "returned"} /\ ~FailsValidityCheck =>
          \A s \in Sources : task[s] = "done"
    /\ \A s \in Sources : task[s] = "done" =>
          /\ ~IsException(results[s])
          /\ s \in failed => results[s] = SourceDefault(s)
    /\ data # NoValue =>
          /\ \A f \in DOMAIN DexDefault : data[f] = results["dex"][f]
          /\ data.name = results["metadata"].name
          /\ data.symbol = results["metadata"].symbol
          /\ data.holders = results["holders"].holders
          /\ data.top_10_share = results["holders"].top_10_share
          /\ data.supply \in {results["supply"].supply, results["metadata"].supply}

C10_Witness ==
    /\ pc = "returned"
    /\ failed = {"metadata"}
    /\ data # NoValue
    /\ results["metadata"] = MetadataDefault
    /\ data.pools = 2
    /\ data.supply = 800000
    /\ data.holders = 2

StrategyRank(strategy) == CASE strategy = "A" -> 1 [] strategy = "B" -> 2 [] OTHER -> 3

\* C11: within one get_holders_info call the strategies are attempted
\* strictly in the order A, B, C; strategy C (getProgramAccounts) is
\* requested only after both A and B were attempted and yielded 0 holders,
\* and nothing is attempted after a strategy produced holders.
C11_StrictOrderABC ==
    /\ reqCount["getProgramAccounts"] > 0 =>
          /\ Attempted("A") /\ LastOut("A").holders = 0
          /\ Attempted("B") /\ LastOut("B").holders = 0
    /\ \A i, j \in 1..Len(attempts) :
          i < j => /\ StrategyRank(attempts[i].strategy) < StrategyRank(attempts[j].strategy)
                   /\ attempts[i].holders = 0

\* C12: within one analyze_token call every kind of external request is
\* issued at most once, whatever the answers are.
C12_EachRequestAtMostOnce == \A k \in RequestKinds : reqCount[k] <= 1

\* The getAccountInfo answer was read and carries the account's data.
AccountRead == ~rugResp.exc /\ rugResp.status = 200 /\ rugResp.body.has_data

\* C13: the record's rug_pull_risk is true exactly when the account was
\* read (no exception, status 200, data present) and its freezeAuthority or
\* its mintAuthority is non-null; a failed read gives false, and
\* analyze_token returns a record whatever the assessor's request did.
C13_RugRiskFailOpen ==
    pc = "returned" /\ ~FailsValidityCheck /\ envFault = NoValue =>
        /\ ~IsError(ret)
        /\ rugResp # NoValue
        /\ ret.rug_pull_risk =
              (AccountRead /\ (rugResp.body.freezeAuthority \/ rugResp.body.mintAuthority))
        /\ "rug" \in failed => ret.rug_pull_risk = FALSE

C13_Witness ==
    /\ pc = "returned"
    /\ ~IsError(ret)
    /\ rugResp # NoValue
    /\ AccountRead
    /\ ~rugResp.body.freezeAuthority
    /\ rugResp.body.mintAuthority
    /\ ret.rug_pull_risk = TRUE

\* The sum of the n largest entries of a, each entry counted when fewer
\* than n entries come before it in decreasing order (ties by position).
LargestSum(a, n) ==
    LET before(i) == { j \in 1..Len(a) : a[j] > a[i] \/ (a[j] = a[i] /\ j < i) }
    IN  SeqSum([i \in 1..Len(a) |-> IF Cardinality(before(i)) < n THEN a[i] ELSE 0])

\* share, in hundredths of a percent, is 100 * top / total to 2 decimals
RoundsTo(share, top, total) == 2 * Abs(share * total - 10000 * top) <= total

\* C14: for every strategy's answer, top_10_share is 100 * (sum of the 10
\* largest amounts) / (sum of all amounts) rounded to 2 decimals, 0 when
\* the total is 0, within [0,100], and holders is never negative; the same
\* holds of the value get_holders_info returns.
C14_Top10ShareOfLargest ==
    /\ \A i \in 1..Len(attempts) :
          LET a == attempts[i].holders_data
              total == SeqSum(a)
          IN  /\ attempts[i].holders >= 0
              /\ attempts[i].top_10_share \in 0..Pct(100)
              /\ total = 0 => attempts[i].top_10_share = 0
              /\ total > 0 =>
                    RoundsTo(attempts[i].top_10_share, LargestSum(a, 10), total)
    /\ task["holders"] = "done" /\ ~IsException(results["holders"]) =>
          /\ results["holders"].holders >= 0
          /\ results["holders"].top_10_share \in 0..Pct(100)

C14_Witness ==
    /\ task["holders"] = "done"
    /\ \E i \in 1..Len(attempts) :
          LET a == attempts[i].holders_data
          IN  /\ Len(a) > 10
              /\ a[1] < a[Len(a)]
              /\ attempts[i].top_10_share \notin {0, Pct(100)}
              /\ results["holders"].top_10_share = attempts[i].top_10_share
              /\ results["holders"].holders = Len(a)

\* C15: the record's market_cap is price_usd * supply / 10^decimals (to
\* the cent) for the record's merged supply and decimals and the price of
\* the market data, and 0 whenever the merged supply is 0, as it is when
\* the supply and the metadata requests both failed.
C15_MarketCapFromMergedSupply ==
    pc = "returned" /\ ~IsError(ret) =>
        /\ ret.price_usd = results["dex"].price_usd
        /\ ret.supply = 0 => ret.market_cap = 0
        /\ ret.supply # 0 =>
              ret.market_cap = (ret.price_usd * ret.supply) \div (10 ^ ret.decimals)
        /\ {"supply", "metadata"} \subseteq failed => ret.supply = 0 /\ ret.market_cap = 0

C15_Witness ==
    /\ pc = "returned"
    /\ ~IsError(ret)
    /\ ret.decimals = 2
    /\ ret.supply = 4000000
    /\ ret.price_usd = 250
    /\ ret.market_cap = USD(100000)

\* C16: nothing is returned before analyze_token returns; what it returns
\* is either an error value with no field of the record, or the record with
\* every merged field, its score and its eight explanation lines; the value
\* returned does not change afterwards.
C16_AllOrNothing ==
    /\ [](pc # "returned" => ret = NoValue)
    /\ [](pc = "returned" =>
            \/ DOMAIN ret = {"error"}
            \/ /\ DOMAIN ret = RecordFields
               /\ data # NoValue
               /\ \A f \in DOMAIN data : ret[f] = data[f]
               /\ ret.score \in 0..20
               /\ Len(ret.explanations) = 8)
    /\ [][pc = "returned" => ret' = ret]_vars

C16_Witness ==
    /\ pc = "returned"
    /\ DOMAIN ret = RecordFields
    /\ ret.score > 6
    /\ ret.holders > 0
    /\ ret.pools > 0
    /\ ret.name = "Token"

C18_AllFailedScoresSix ==
    pc = "returned" /\ ~FailsValidityCheck /\ envFault = NoValue
      /\ failed = Tasks /\ (\A i \in 1..Len(attempts) : attempts[i].holders_data = <<>>) =>
        /\ ~IsError(ret)
        /\ ret.score = 6
        /\ [i \in 1..Len(ret.explanations) |-> ret.explanations[i].points]
              = <<0, 0, 0, 2, 0, 0, 2, 2>>
        /\ [i \in 1..Len(ret.explanations) |-> ret.explanations[i].category]
              = <<"Pools", "Volume 24h", "Liquidite", "Stabilite", "Market Cap",
                  "Holders", "Distribution", "Securite">>

C18_Witness ==
    /\ pc = "returned"
    /\ failed = Tasks
    /\ Len(attempts) = 4
    /\ \A i \in 1..Len(attempts) : attempts[i].holders_data = <<>>
    /\ ~IsError(ret)
    /\ ret.score = 6
    /\ ret.name = "Unknown"
    /\ ret.rug_pull_risk = FALSE

=============================================================================
